---- MODULE Spec2Model ----
(***************************************************************************)
(* Model of src/src/page.ts: GlyphProvider, the console data service that  *)
(* lists, deletes, uploads and loads on demand the font files of one       *)
(* storage directory, next to the in-memory font cache of FontsService.    *)
(*                                                                         *)
(* File names, font names and payloads are sequences of one-character      *)
(* strings, so that extname, basename, toLowerCase and the data-URL        *)
(* pattern are computed as node computes them.  Every async handler is a   *)
(* record with a position (pc); one action is one resumption of a handler: *)
(* the result of the awaited call together with the synchronous code that  *)
(* runs up to the next await.                                              *)
(***************************************************************************)
EXTENDS Naturals, Sequences, FiniteSets

VARIABLES dir, readable, cache, handlers, delivered

vars == <<dir, readable, cache, handlers, delivered>>

----------------------------------------------------------------------------
(* Bounds of the model *)

\* Most entries the storage directory holds in an initial state.
MaxInitFiles == 2

\* Most commands the transport delivers in one behaviour with concurrent
\* handlers.
MaxCommands == 3

----------------------------------------------------------------------------
(* Characters and strings *)

UpperAlpha == <<"A","B","C","D","E","F","G","H","I","J","K","L","M",
                "N","O","P","Q","R","S","T","U","V","W","X","Y","Z">>

LowerAlpha == <<"a","b","c","d","e","f","g","h","i","j","k","l","m",
                "n","o","p","q","r","s","t","u","v","w","x","y","z">>

\* String.prototype.toLowerCase, one character.
LowerChar(c) ==
    IF \E i \in DOMAIN UpperAlpha : UpperAlpha[i] = c
      THEN LowerAlpha[CHOOSE i \in DOMAIN UpperAlpha : UpperAlpha[i] = c]
      ELSE c

\* String.prototype.toLowerCase.
toLowerCase(s) == [i \in DOMAIN s |-> LowerChar(s[i])]

\* Index of the last "." of s, 0 when there is none.
LastDot(s) ==
    IF \E i \in DOMAIN s : s[i] = "."
      THEN CHOOSE i \in DOMAIN s : s[i] = "." /\ \A j \in DOMAIN s : s[j] = "." => j <= i
      ELSE 0

\* path.extname of a name without separators: from the last dot on; empty
\* when there is no dot, when the only dot leads the name, and for "..".
extname(file) ==
    IF LastDot(file) <= 1 \/ file = <<".", ".">>
      THEN << >>
      ELSE SubSeq(file, LastDot(file), Len(file))

\* path.basename(file, suffix) of a name without separators: the suffix is
\* removed only when the name ends with it, compared character by character
\* (case-sensitively).
basename(file, suffix) ==
    IF suffix = << >> \/ Len(suffix) > Len(file) THEN file
    ELSE IF suffix = file THEN << >>
    ELSE IF SubSeq(file, Len(file) - Len(suffix) + 1, Len(file)) = suffix
      THEN SubSeq(file, 1, Len(file) - Len(suffix))
      ELSE file

\* The allow-list of font container formats.
SUPPORTED_FORMATS ==
    { <<".","t","t","f">>, <<".","o","t","f">>, <<".","w","o","f","f">>,
      <<".","w","o","f","f","2">>, <<".","t","t","c">>, <<".","e","o","t">>,
      <<".","s","v","g">>, <<".","d","f","o","n","t">>, <<".","f","o","n">>,
      <<".","p","f","a">>, <<".","p","f","b">> }

\* const ext = extname(file).toLowerCase()
ExtOf(file) == toLowerCase(extname(file))

\* The extension compared as written, without toLowerCase.
Supported_caseSensitive(file) == extname(file) \in SUPPORTED_FORMATS

\* SUPPORTED_FORMATS.includes(ext)
Supported(file) == ExtOf(file) \in SUPPORTED_FORMATS

\* const name = basename(file, ext), with ext the lower-cased extension.
NameOf(file) == basename(file, ExtOf(file))

\* ext.slice(1)
FormatOf(file) == SubSeq(ExtOf(file), 2, Len(ExtOf(file)))

\* The root of the storage directory, this.glyphService['fontRoot'].
fontRoot == <<"/", "f">>

\* path.resolve(fontRoot, file) for a plain file name.
resolve(root, file) == root \o <<"/">> \o file

----------------------------------------------------------------------------
(* The upload payload *)

DataPrefix == <<"d","a","t","a",":">>

Base64Tag == <<";","b","a","s","e","6","4",",">>

\* Characters the pattern's "." does not match.
LineTerminators == {"\n", "\r"}

\* base64Data.match(/^data:([^;]+);base64,(.+)$/) with a first group of k
\* characters: "data:", k >= 1 characters other than ";", ";base64,", then
\* at least one character and no line terminator up to the end.
MatchWith(p, k) ==
    /\ k >= 1
    /\ Len(p) >= Len(DataPrefix) + k + Len(Base64Tag) + 1
    /\ SubSeq(p, 1, Len(DataPrefix)) = DataPrefix
    /\ \A i \in (Len(DataPrefix) + 1)..(Len(DataPrefix) + k) : p[i] # ";"
    /\ SubSeq(p, Len(DataPrefix) + k + 1, Len(DataPrefix) + k + Len(Base64Tag)) = Base64Tag
    /\ \A i \in (Len(DataPrefix) + k + Len(Base64Tag) + 1)..Len(p) : p[i] \notin LineTerminators

\* matches !== null
PayloadMatches(p) == \E k \in 1..Len(p) : MatchWith(p, k)

\* matches[2]
Base64Content(p) ==
    LET k == CHOOSE k \in 1..Len(p) : MatchWith(p, k)
    IN  SubSeq(p, Len(DataPrefix) + k + Len(Base64Tag) + 1, Len(p))

Base64Alphabet ==
    {UpperAlpha[i] : i \in DOMAIN UpperAlpha} \cup {LowerAlpha[i] : i \in DOMAIN LowerAlpha}
      \cup {"0","1","2","3","4","5","6","7","8","9","+","/","-","_"}

\* Buffer.from(base64Content, 'base64').length: decoding stops at the first
\* "=", skips every character outside the alphabet, and yields 6 bits per
\* character kept.
DecodedLength(b) ==
    LET stop == IF \E i \in DOMAIN b : b[i] = "="
                  THEN CHOOSE i \in DOMAIN b : b[i] = "=" /\ \A j \in 1..(i - 1) : b[j] # "="
                  ELSE Len(b) + 1
        kept == Cardinality({i \in 1..(stop - 1) : b[i] \in Base64Alphabet})
    IN  (kept * 3) \div 4

----------------------------------------------------------------------------
(* The storage directory *)

\* An entry of the directory: a regular file of some size, or a directory.
FileEntry(size) == [kind |-> "file", size |-> size]

DirEntry == [kind |-> "dir", size |-> 0]

\* unlink(filePath): the directory without the file.
Remove(d, file) == [f \in (DOMAIN d) \ {file} |-> d[f]]

\* writeFile(filePath, buffer): the file created or overwritten.
Put(d, file, entry) == [f \in (DOMAIN d) \cup {file} |-> IF f = file THEN entry ELSE d[f]]

\* The orders in which readdir may enumerate the entries S.
Orders(S) ==
    {o \in [1..Cardinality(S) -> S] : \A i, j \in 1..Cardinality(S) : o[i] = o[j] => i = j}

----------------------------------------------------------------------------
(* FontsService, the font cache *)

\* An absent value: null, undefined.
Null == << >>

\* The last segment of a path.
PathFile(path) ==
    LET slash == CHOOSE i \in DOMAIN path :
                    path[i] = "/" /\ \A j \in DOMAIN path : path[j] = "/" => j <= i
    IN  SubSeq(path, slash + 1, Len(path))

\* The stem of a file name: the name without its extension.
Stem(file) == basename(file, extname(file))

\* The data URL the cache holds for a loaded file.
DataUrlOf(file, entry) == <<"data", file, entry.size>>

\* getFontInfo(name)?.dataUrl
getFontInfo(c, name) == IF name \in DOMAIN c THEN c[name] ELSE Null

\* The cache after loadSingleFont(path) has loaded the file: one entry,
\* keyed by the stem of the file.
loadSingleFont(c, d, path) ==
    LET file == PathFile(path)
    IN  [n \in (DOMAIN c) \cup {Stem(file)} |->
            IF n = Stem(file) THEN DataUrlOf(file, d[file]) ELSE c[n]]

\* How a call of loadSingleFont(path) can end: the font is loaded (only a
\* regular file that exists can be), the call resolves without an entry, or
\* the call rejects.
LoadOutcomes(d, path) ==
    (IF PathFile(path) \in DOMAIN d /\ d[PathFile(path)].kind = "file"
       THEN {"loaded"} ELSE {}) \cup {"skipped", "failed"}

\* unloadFont(name)
unloadFont(c, name) == [n \in (DOMAIN c) \ {name} |-> c[n]]

\* unloadAllFonts()
unloadAllFonts(c) == [n \in {} |-> Null]

\* getMemoryInfo()
getMemoryInfo(c) == {[name |-> n, size |-> c[n][3]] : n \in DOMAIN c}

----------------------------------------------------------------------------
(* The inputs of the model *)

a_ttf == <<"a",".","t","t","f">>
a_otf == <<"a",".","o","t","f">>
a_TTF == <<"a",".","T","T","F">>
a_txt == <<"a",".","t","x","t">>

\* Names an entry of the directory may have in an initial state.
InitNames == {a_ttf, a_otf, a_TTF, a_txt}

\* Sizes of the files of an initial state.
InitSizes == {7}

\* Font names the commands delete, load-font and unload-font carry.
FontNames == {<<"a">>, <<"b">>, a_TTF}

\* File names the command upload carries.
UploadNames == {a_ttf, a_TTF, a_txt}

P_ok == DataPrefix \o <<"f">> \o Base64Tag \o <<"Q","U","J","D">>
P_bare == <<"Q","U","J","D">>
P_nomime == DataPrefix \o Base64Tag \o <<"Q","U","J","D">>
P_nodata == DataPrefix \o <<"f">> \o Base64Tag
P_twoline == DataPrefix \o <<"f">> \o Base64Tag \o <<"Q","U","\n","J","D">>

\* Payloads the command upload carries.
Payloads == {P_ok, P_bare, P_nomime, P_nodata, P_twoline}

\* The handlers the transport can have in flight at once.
Slots == {1, 2}

----------------------------------------------------------------------------
(* Handlers *)

\* A handler that is not running: never started, returned, or rejected.
Finished == {"idle", "done", "rejected"}

Running(h) == h.pc \notin Finished

\* A listener invoked with its arguments, before its first step.
\*   cmd, name, data : the event and its arguments
\*   files, idx      : the array being iterated and the position in it
\*   fonts           : the listing built by listFonts
\*   size            : buffer.length
\*   result, info    : the value the handler returned (a data URL, the
\*                     memory information)
\*   log             : the function whose catch block logged an error
\*   scans, loads, calls : calls of readdir, of loadSingleFont, and of any
\*                     method of glyphService made so far
\*   published       : refresh() has broadcast the listing in fonts
Started(cmd, pc, name, data) ==
    [cmd |-> cmd, pc |-> pc, name |-> name, data |-> data,
     files |-> << >>, idx |-> 0, fonts |-> << >>, size |-> 0,
     result |-> Null, info |-> {}, log |-> "none",
     scans |-> 0, loads |-> 0, calls |-> 0, published |-> FALSE]

Idle == Started("none", "idle", << >>, << >>)

\* The transport may invoke a listener in slot s.
CanDeliver(s) == ~Running(handlers[s])

Set(s, h) == handlers' = [handlers EXCEPT ![s] = h]

----------------------------------------------------------------------------
(* Initial states *)

InitDirs ==
    UNION { [S -> {FileEntry(z) : z \in InitSizes} \cup {DirEntry}] :
              S \in {T \in SUBSET InitNames : Cardinality(T) <= MaxInitFiles} }

Init ==
    /\ dir \in InitDirs
    /\ readable \in BOOLEAN
    /\ cache = [n \in {} |-> Null]
    /\ handlers = [s \in Slots |-> Idle]
    /\ delivered = 0

----------------------------------------------------------------------------
(* listFonts, as run by get() and by refresh() *)

\* The first index from i on of a file the loop does not skip for its
\* extension; Len(files) + 1 when there is none.
NextSupported(files, i) ==
    IF \E j \in i..Len(files) : Supported(files[j])
      THEN CHOOSE j \in i..Len(files) :
              Supported(files[j]) /\ \A k \in i..(j - 1) : ~Supported(files[k])
      ELSE Len(files) + 1

\* The entry listFonts pushes for a file.
FontOf(file, entry, c) ==
    [name |-> NameOf(file), fileName |-> file, format |-> FormatOf(file),
     size |-> entry.size, path |-> resolve(fontRoot, file),
     dataUrl |-> getFontInfo(c, NameOf(file))]

\* listFonts returns: get() hands the listing to its caller, refresh()
\* broadcasts it.
Returned(h, fonts) ==
    [h EXCEPT !.pc = "done", !.fonts = fonts, !.published = (h.cmd # "get")]

\* readdir(fontRoot) of listFonts resolves or rejects; the loop runs up to
\* the first stat.
ListReaddir(s) ==
    LET h == handlers[s] IN
    /\ h.pc = "listFonts"
    /\ IF ~readable
         THEN Set(s, Returned([h EXCEPT !.scans = @ + 1, !.log = "listFonts"], << >>))
         ELSE \E order \in Orders(DOMAIN dir) :
                LET j == NextSupported(order, 1)
                    g == [h EXCEPT !.scans = @ + 1, !.files = order, !.idx = j]
                IN  IF j > Len(order)
                      THEN Set(s, Returned(g, << >>))
                      ELSE Set(s, [g EXCEPT !.pc = "stat", !.fonts = << >>])
    /\ UNCHANGED <<dir, readable, cache, delivered>>

\* stat(filePath) resolves or rejects (the file is gone); the loop runs up
\* to the next stat.
ListStat(s) ==
    LET h == handlers[s]
        file == h.files[h.idx]
        j == NextSupported(h.files, h.idx + 1)
    IN
    /\ h.pc = "stat"
    /\ IF file \notin DOMAIN dir
         THEN Set(s, Returned([h EXCEPT !.log = "listFonts"], h.fonts))
         ELSE LET fonts == IF dir[file].kind = "dir" THEN h.fonts
                           ELSE Append(h.fonts, FontOf(file, dir[file], cache))
                  g == [h EXCEPT !.idx = j,
                                 !.calls = IF dir[file].kind = "dir" THEN @ ELSE @ + 1]
              IN  IF j > Len(h.files)
                    THEN Set(s, Returned(g, fonts))
                    ELSE Set(s, [g EXCEPT !.fonts = fonts])
    /\ UNCHANGED <<dir, readable, cache, delivered>>

\* The data service asks for the payload: get().
DeliverGet(s) ==
    /\ CanDeliver(s)
    /\ Set(s, Started("get", "listFonts", << >>, << >>))
    /\ UNCHANGED <<dir, readable, cache>>

----------------------------------------------------------------------------
(* 'glyph/delete': deleteFont, then refresh *)

\* A filter that knows one format only.
Matching_ttfOnly(file, fontName) ==
    NameOf(file) = fontName /\ ExtOf(file) = <<".","t","t","f">>

\* The filter of deleteFont.
Matching(file, fontName) == NameOf(file) = fontName /\ Supported(file)

\* The files of an enumeration that match.
MatchingFiles(order, fontName) ==
    LET Matches(file) == Matching(file, fontName) IN SelectSeq(order, Matches)

DeliverDelete(s, fontName) ==
    /\ CanDeliver(s)
    /\ Set(s, Started("delete", "deleteFont", fontName, << >>))
    /\ UNCHANGED <<dir, readable, cache>>

\* readdir(fontRoot) of deleteFont resolves or rejects.  With nothing to
\* delete deleteFont returns and the handler goes on to refresh().
DeleteReaddir(s) ==
    LET h == handlers[s] IN
    /\ h.pc = "deleteFont"
    /\ IF ~readable
         THEN Set(s, [h EXCEPT !.scans = @ + 1, !.log = "deleteFont", !.pc = "rejected"])
         ELSE \E order \in Orders(DOMAIN dir) :
                LET m == MatchingFiles(order, h.name)
                IN  Set(s, [h EXCEPT !.scans = @ + 1, !.files = m, !.idx = 1,
                                     !.pc = IF m = << >> THEN "listFonts" ELSE "unlink"])
    /\ UNCHANGED <<dir, readable, cache, delivered>>

\* A loop that logs a failed unlink and goes on to the next file.
DeleteUnlink_continue(s) ==
    LET h == handlers[s]
        file == h.files[h.idx]
        next == IF h.idx = Len(h.files) THEN "listFonts" ELSE "unlink"
    IN
    /\ h.pc = "unlink"
    /\ \/ /\ file \in DOMAIN dir
          /\ dir[file].kind = "file"
          /\ dir' = Remove(dir, file)
          /\ Set(s, [h EXCEPT !.idx = @ + 1, !.pc = next])
       \/ /\ dir' = dir
          /\ Set(s, [h EXCEPT !.log = "deleteFont", !.idx = @ + 1, !.pc = next])
    /\ UNCHANGED <<readable, cache, delivered>>

\* A deleteFont that also evicts the font from the cache.
DeleteUnlink_evict(s) ==
    LET h == handlers[s]
        file == h.files[h.idx]
    IN
    /\ h.pc = "unlink"
    /\ \/ /\ file \in DOMAIN dir
          /\ dir[file].kind = "file"
          /\ dir' = Remove(dir, file)
          /\ cache' = unloadFont(cache, h.name)
          /\ Set(s, [h EXCEPT !.idx = @ + 1,
                              !.pc = IF h.idx = Len(h.files) THEN "listFonts" ELSE "unlink"])
       \/ /\ dir' = dir
          /\ cache' = cache
          /\ Set(s, [h EXCEPT !.log = "deleteFont", !.pc = "rejected"])
    /\ UNCHANGED <<readable, delivered>>

\* unlink(filePath) of the next matching file resolves (only a regular file
\* that exists can be unlinked) or rejects; the error is logged and thrown
\* again, and the handler never reaches refresh().
DeleteUnlink(s) ==
    LET h == handlers[s]
        file == h.files[h.idx]
    IN
    /\ h.pc = "unlink"
    /\ \/ /\ file \in DOMAIN dir
          /\ dir[file].kind = "file"
          /\ dir' = Remove(dir, file)
          /\ Set(s, [h EXCEPT !.idx = @ + 1,
                              !.pc = IF h.idx = Len(h.files) THEN "listFonts" ELSE "unlink"])
       \/ /\ dir' = dir
          /\ Set(s, [h EXCEPT !.log = "deleteFont", !.pc = "rejected"])
    /\ UNCHANGED <<readable, cache, delivered>>

----------------------------------------------------------------------------
(* 'glyph/upload': uploadFont, the delay, then refresh *)

DeliverUpload(s, fileName, base64Data) ==
    /\ CanDeliver(s)
    /\ Set(s, Started("upload", "uploadFont", fileName, base64Data))
    /\ UNCHANGED <<dir, readable, cache>>

\* A validation that looks at the "data:" prefix only and decodes the whole
\* payload.
UploadValidate_prefixOnly(s) ==
    LET h == handlers[s] IN
    /\ h.pc = "uploadFont"
    /\ IF \/ ~Supported(h.name)
          \/ Len(h.data) < Len(DataPrefix)
          \/ SubSeq(h.data, 1, Len(DataPrefix)) # DataPrefix
         THEN Set(s, [h EXCEPT !.log = "uploadFont", !.pc = "rejected"])
         ELSE Set(s, [h EXCEPT !.size = DecodedLength(h.data), !.pc = "writeFile"])
    /\ UNCHANGED <<dir, readable, cache, delivered>>

\* uploadFont up to the call of writeFile: the extension, the pattern, the
\* decoding.
UploadValidate(s) ==
    LET h == handlers[s] IN
    /\ h.pc = "uploadFont"
    /\ IF ~Supported(h.name) \/ ~PayloadMatches(h.data)
         THEN Set(s, [h EXCEPT !.log = "uploadFont", !.pc = "rejected"])
         ELSE Set(s, [h EXCEPT !.size = DecodedLength(Base64Content(h.data)),
                               !.pc = "writeFile"])
    /\ UNCHANGED <<dir, readable, cache, delivered>>

\* writeFile(filePath, buffer) resolves (a directory cannot be written) or
\* rejects.
UploadWrite(s) ==
    LET h == handlers[s] IN
    /\ h.pc = "writeFile"
    /\ \/ /\ h.name \in DOMAIN dir => dir[h.name].kind = "file"
          /\ dir' = Put(dir, h.name, FileEntry(h.size))
          /\ Set(s, [h EXCEPT !.pc = "loadSingleFont"])
       \/ /\ dir' = dir
          /\ Set(s, [h EXCEPT !.log = "uploadFont", !.pc = "rejected"])
    /\ UNCHANGED <<readable, cache, delivered>>

\* loadSingleFont(filePath) of uploadFont resolves or rejects; a rejection
\* reaches the catch block of uploadFont, which throws it again.
UploadLoad(s) ==
    LET h == handlers[s]
        path == resolve(fontRoot, h.name)
    IN
    /\ h.pc = "loadSingleFont"
    /\ h.cmd = "upload"
    /\ \E outcome \in LoadOutcomes(dir, path) :
         /\ cache' = IF outcome = "loaded" THEN loadSingleFont(cache, dir, path) ELSE cache
         /\ Set(s, [h EXCEPT !.loads = @ + 1, !.calls = @ + 1,
                             !.log = IF outcome = "failed" THEN "uploadFont" ELSE @,
                             !.pc = IF outcome = "failed" THEN "rejected" ELSE "delay"])
    /\ UNCHANGED <<dir, readable, delivered>>

\* A handler that returns after the delay without refresh().
UploadDelay_noRefresh(s) ==
    LET h == handlers[s] IN
    /\ h.pc = "delay"
    /\ Set(s, [h EXCEPT !.pc = "done"])
    /\ UNCHANGED <<dir, readable, cache, delivered>>

\* The timer of 300 ms fires.
UploadDelay(s) ==
    LET h == handlers[s] IN
    /\ h.pc = "delay"
    /\ Set(s, [h EXCEPT !.pc = "listFonts"])
    /\ UNCHANGED <<dir, readable, cache, delivered>>

----------------------------------------------------------------------------
(* 'glyph/load-font': loadFontOnDemand *)

DeliverLoadFont(s, fontName) ==
    /\ CanDeliver(s)
    /\ Set(s, Started("load", "loadFontOnDemand", fontName, << >>))
    /\ UNCHANGED <<dir, readable, cache>>

\* A loadFontOnDemand that scans the directory without asking the cache.
LoadCheck_noCache(s) ==
    LET h == handlers[s] IN
    /\ h.pc = "loadFontOnDemand"
    /\ Set(s, [h EXCEPT !.pc = "readdir"])
    /\ UNCHANGED <<dir, readable, cache, delivered>>

\* The check of the cache, up to the call of readdir.
LoadCheck(s) ==
    LET h == handlers[s]
        dataUrl == getFontInfo(cache, h.name)
    IN
    /\ h.pc = "loadFontOnDemand"
    /\ IF dataUrl # Null
         THEN Set(s, [h EXCEPT !.calls = @ + 1, !.result = dataUrl, !.pc = "done"])
         ELSE Set(s, [h EXCEPT !.calls = @ + 1, !.pc = "readdir"])
    /\ UNCHANGED <<dir, readable, cache, delivered>>

\* The first index of a file of the enumeration that matches; 0 when none
\* does.
FirstMatch(order, fontName) ==
    IF \E j \in DOMAIN order : Matching(order[j], fontName)
      THEN CHOOSE j \in DOMAIN order :
              Matching(order[j], fontName)
                /\ \A k \in 1..(j - 1) : ~Matching(order[k], fontName)
      ELSE 0

\* readdir(fontRoot) of loadFontOnDemand resolves or rejects; the loop runs
\* up to the call of loadSingleFont for the first match.
LoadReaddir(s) ==
    LET h == handlers[s] IN
    /\ h.pc = "readdir"
    /\ IF ~readable
         THEN Set(s, [h EXCEPT !.scans = @ + 1, !.log = "loadFontOnDemand",
                               !.result = Null, !.pc = "done"])
         ELSE \E order \in Orders(DOMAIN dir) :
                LET j == FirstMatch(order, h.name)
                    g == [h EXCEPT !.scans = @ + 1, !.files = order, !.idx = j]
                IN  IF j = 0
                      THEN Set(s, [g EXCEPT !.result = Null, !.pc = "done"])
                      ELSE Set(s, [g EXCEPT !.pc = "loadSingleFont"])
    /\ UNCHANGED <<dir, readable, cache, delivered>>

\* A loop that loads every matching file instead of returning at the first.
LoadLoad_allMatches(s) ==
    LET h == handlers[s]
        path == resolve(fontRoot, h.files[h.idx])
        later == {j \in (h.idx + 1)..Len(h.files) : Matching(h.files[j], h.name)}
    IN
    /\ h.pc = "loadSingleFont"
    /\ h.cmd = "load"
    /\ \E outcome \in LoadOutcomes(dir, path) :
         /\ cache' = IF outcome = "loaded" THEN loadSingleFont(cache, dir, path) ELSE cache
         /\ IF outcome = "failed"
              THEN Set(s, [h EXCEPT !.loads = @ + 1, !.calls = @ + 1,
                                    !.log = "loadFontOnDemand",
                                    !.result = Null, !.pc = "done"])
              ELSE IF later # {}
                THEN Set(s, [h EXCEPT !.loads = @ + 1, !.calls = @ + 1,
                                      !.idx = CHOOSE j \in later : \A k \in later : j <= k])
                ELSE Set(s, [h EXCEPT !.loads = @ + 1, !.calls = @ + 2,
                                      !.result = getFontInfo(cache', h.name),
                                      !.pc = "done"])
    /\ UNCHANGED <<dir, readable, delivered>>

\* loadSingleFont(filePath) of loadFontOnDemand resolves, and the data URL
\* of getFontInfo(fontName) is returned, or rejects, and null is returned.
LoadLoad(s) ==
    LET h == handlers[s]
        path == resolve(fontRoot, h.files[h.idx])
    IN
    /\ h.pc = "loadSingleFont"
    /\ h.cmd = "load"
    /\ \E outcome \in LoadOutcomes(dir, path) :
         /\ cache' = IF outcome = "loaded" THEN loadSingleFont(cache, dir, path) ELSE cache
         /\ IF outcome = "failed"
              THEN Set(s, [h EXCEPT !.loads = @ + 1, !.calls = @ + 1,
                                    !.log = "loadFontOnDemand",
                                    !.result = Null, !.pc = "done"])
              ELSE Set(s, [h EXCEPT !.loads = @ + 1, !.calls = @ + 2,
                                    !.result = getFontInfo(cache', h.name),
                                    !.pc = "done"])
    /\ UNCHANGED <<dir, readable, delivered>>

----------------------------------------------------------------------------
(* The pass-throughs to FontsService *)

\* 'glyph/unload-font'
DeliverUnloadFont(s, fontName) ==
    /\ CanDeliver(s)
    /\ cache' = unloadFont(cache, fontName)
    /\ Set(s, [Started("unload", "done", fontName, << >>) EXCEPT !.calls = 1])
    /\ UNCHANGED <<dir, readable>>

\* 'glyph/unload-all'
DeliverUnloadAll(s) ==
    /\ CanDeliver(s)
    /\ cache' = unloadAllFonts(cache)
    /\ Set(s, [Started("unload-all", "done", << >>, << >>) EXCEPT !.calls = 1])
    /\ UNCHANGED <<dir, readable>>

\* 'glyph/get-memory-info'
DeliverGetMemoryInfo(s) ==
    /\ CanDeliver(s)
    /\ Set(s, [Started("memory-info", "done", << >>, << >>)
                 EXCEPT !.calls = 1, !.info = getMemoryInfo(cache)])
    /\ UNCHANGED <<dir, readable, cache>>

----------------------------------------------------------------------------
(* The environment *)

\* The permissions of the storage directory change while no handler runs.
Chmod ==
    /\ \A s \in Slots : ~Running(handlers[s])
    /\ readable' = ~readable
    /\ UNCHANGED <<dir, cache, handlers, delivered>>

----------------------------------------------------------------------------
(* Specifications *)

\* One resumption of the handler in slot s.
Step(s) ==
    \/ ListReaddir(s)
    \/ ListStat(s)
    \/ DeleteReaddir(s)
    \/ DeleteUnlink(s)
    \/ UploadValidate(s)
    \/ UploadWrite(s)
    \/ UploadLoad(s)
    \/ UploadDelay(s)
    \/ LoadCheck(s)
    \/ LoadReaddir(s)
    \/ LoadLoad(s)

\* The transport invokes a listener in slot s, with arguments drawn from the
\* given font names, file names and payloads.
Deliver(s, fontNames, fileNames, payloads) ==
    \/ DeliverGet(s)
    \/ \E fontName \in fontNames : DeliverDelete(s, fontName)
    \/ \E fileName \in fileNames : \E base64Data \in payloads :
          DeliverUpload(s, fileName, base64Data)
    \/ \E fontName \in fontNames : DeliverLoadFont(s, fontName)
    \/ \E fontName \in fontNames : DeliverUnloadFont(s, fontName)
    \/ DeliverUnloadAll(s)
    \/ DeliverGetMemoryInfo(s)

\* Commands delivered one at a time: the next one only when the handler of
\* the last one has returned or rejected.
Next ==
    \/ Deliver(1, FontNames, UploadNames, Payloads) /\ UNCHANGED delivered
    \/ Step(1)
    \/ Chmod

Spec == Init /\ [][Next]_vars

\* Directories the concurrent behaviours start from: two formats of one
\* font, as regular files.
AsyncDirs == {[f \in {a_ttf, a_otf} |-> FileEntry(z)] : z \in InitSizes}

\* Arguments of the commands of the concurrent behaviours.
AsyncFontNames == {<<"a">>}

AsyncUploadNames == {a_ttf}

AsyncPayloads == {P_ok, P_bare}

InitAsync ==
    /\ dir \in AsyncDirs
    /\ readable \in BOOLEAN
    /\ cache = [n \in {} |-> Null]
    /\ handlers = [s \in Slots |-> Idle]
    /\ delivered = 0

\* The slot a new invocation takes: the first one without a running handler.
FirstFree(s) == \A t \in Slots : t < s => Running(handlers[t])

\* Commands delivered whenever the transport has one: a listener is invoked
\* while the handlers of earlier commands wait at an await.
NextAsync ==
    \/ \E s \in Slots :
          /\ delivered < MaxCommands
          /\ FirstFree(s)
          /\ Deliver(s, AsyncFontNames, AsyncUploadNames, AsyncPayloads)
          /\ delivered' = delivered + 1
    \/ \E s \in Slots : Step(s)
    \/ Chmod

SpecAsync == InitAsync /\ [][NextAsync]_vars

----------------------------------------------------------------------------
(* The vocabulary of the claims *)

\* The extension of a file is in the allow-list, compared case-insensitively.
AllowListed(file) == \E e \in SUPPORTED_FORMATS : toLowerCase(extname(file)) = e

\* The lower-case extension of a file, without its leading dot.
LowerExtNoDot(file) == toLowerCase(SubSeq(file, LastDot(file) + 1, Len(file)))

\* A payload of the form data:<mime>;base64,<data>, both parts non-empty.
DataUrlForm(p) ==
    \E k \in 1..Len(p) :
       /\ Len(p) > Len(DataPrefix) + k + Len(Base64Tag)
       /\ SubSeq(p, 1, Len(DataPrefix)) = DataPrefix
       /\ SubSeq(p, Len(DataPrefix) + k + 1, Len(DataPrefix) + k + Len(Base64Tag)) = Base64Tag

\* deleteFont has returned to the handler of 'glyph/delete' without an error.
DeleteReturned(h) == h.cmd = "delete" /\ h.pc \in {"listFonts", "stat", "done"}

\* A listing holds exactly one entry, of the right format, for every regular
\* file of the directory with an allow-listed extension, and no other entry.
ExactListing(fonts, d) ==
    /\ \A f \in DOMAIN d :
          (d[f].kind = "file" /\ AllowListed(f)) =>
             /\ Cardinality({i \in DOMAIN fonts : fonts[i].fileName = f}) = 1
             /\ \A i \in DOMAIN fonts :
                   fonts[i].fileName = f => fonts[i].format = LowerExtNoDot(f)
    /\ \A i \in DOMAIN fonts :
          /\ fonts[i].fileName \in DOMAIN d
          /\ d[fonts[i].fileName].kind = "file"
          /\ AllowListed(fonts[i].fileName)

\* The handler in slot s takes a step.
Steps(s) == handlers'[s] # handlers[s]

----------------------------------------------------------------------------
(* C1 *)

----------------------------------------------------------------------------
(* C2 *)

\* C2: when listFonts returns and the directory is readable, the listing
\* holds exactly one entry for every regular file whose extension is
\* allow-listed case-insensitively, its format the lower-case extension
\* without the dot, and no entry for a directory or any other file.
C2_ListingExact ==
    [][\A s \in Slots :
          (handlers[s].pc \in {"listFonts", "stat"} /\ handlers'[s].pc = "done" /\ readable)
             => ExactListing(handlers'[s].fonts, dir)]_vars

\* get() has listed a file with an upper-case extension and skipped a
\* directory.
C2_Witness ==
    \E s \in Slots :
       LET h == handlers[s] IN
       /\ h.cmd = "get" /\ h.pc = "done" /\ h.log = "none"
       /\ Len(h.fonts) = 1
       /\ h.fonts[1].fileName = a_TTF
       /\ h.fonts[1].format = <<"t","t","f">>
       /\ \E f \in DOMAIN dir : dir[f].kind = "dir"

----------------------------------------------------------------------------
(* C3 *)

\* C3: no step of an upload handler whose payload is not of the form
\* data:<mime>;base64,<data> changes the directory or the cache or requests
\* a cache load, and the handler ends rejected.
C3_BadPayloadRejected ==
    [][\A s \in Slots :
          (Steps(s) /\ handlers'[s].cmd = "upload" /\ ~DataUrlForm(handlers'[s].data))
             => /\ dir' = dir
                /\ cache' = cache
                /\ handlers'[s].loads = 0
                /\ handlers'[s].pc \in {"uploadFont", "rejected"}]_vars

\* An upload of a supported file name with a payload of another form has
\* been rejected.
C3_Witness ==
    \E s \in Slots :
       LET h == handlers[s] IN
       /\ h.cmd = "upload" /\ h.pc = "rejected" /\ h.log = "uploadFont"
       /\ h.name = a_ttf
       /\ h.data = P_nomime

----------------------------------------------------------------------------
(* C4 *)

\* C4, as stated: when uploadFont has written the file and the cache load
\* that follows fails, uploadFont still returns without an error and the
\* file stays in the directory.
C4_LoadFailureSwallowed ==
    \A s \in Slots :
       LET h == handlers[s] IN
       (h.cmd = "upload" /\ h.loads = 1 /\ h.log = "uploadFont") =>
          /\ h.pc # "rejected"
          /\ h.name \in DOMAIN dir

----------------------------------------------------------------------------
(* C5 *)

\* C5, as stated: while the cache holds no entry for name and the directory
\* holds no allow-listed file whose stem is name, no step of
\* loadFontOnDemand(name) changes the directory or the cache, and the
\* handler returns null without an error.
C5_NotFoundChangesNothing ==
    [][\A s \in Slots :
          ( /\ Steps(s)
            /\ handlers[s].cmd = "load"
            /\ handlers'[s].cmd = "load"
            /\ handlers[s].name \notin DOMAIN cache
            /\ \A f \in DOMAIN dir : ~(AllowListed(f) /\ Stem(f) = handlers[s].name) )
             => /\ dir' = dir
                /\ cache' = cache
                /\ handlers'[s].pc # "rejected"
                /\ handlers'[s].pc = "done" => handlers'[s].result = Null]_vars

----------------------------------------------------------------------------
(* C6 *)

\* C6: when loadFontOnDemand(name) starts with a data URL for name in the
\* cache, it returns that data URL at once, without a readdir and without a
\* cache load, and leaves directory and cache as they are.
C6_CacheHit ==
    [][\A s \in Slots :
          ( /\ Steps(s)
            /\ handlers[s].pc = "loadFontOnDemand"
            /\ handlers[s].name \in DOMAIN cache
            /\ cache[handlers[s].name] # Null )
             => /\ handlers'[s].pc = "done"
                /\ handlers'[s].result = cache[handlers[s].name]
                /\ handlers'[s].scans = 0
                /\ handlers'[s].loads = 0
                /\ dir' = dir
                /\ cache' = cache]_vars

\* A cached data URL returned while the directory is unreadable and holds
\* no file of that font.
C6_Witness ==
    \E s \in Slots :
       LET h == handlers[s] IN
       /\ h.cmd = "load" /\ h.pc = "done"
       /\ h.result # Null
       /\ h.scans = 0
       /\ ~readable
       /\ \A f \in DOMAIN dir : Stem(f) # h.name

----------------------------------------------------------------------------
(* C7 *)

HandlerOver(h) == h.cmd \in {"delete", "upload"} /\ h.pc \in {"done", "rejected"}

----------------------------------------------------------------------------
(* C8 *)

\* C8, as stated: at most one handler is in progress at any time, and no
\* handler makes more than one call of the cache.
C8_Serialized ==
    /\ Cardinality({s \in Slots : Running(handlers[s])}) <= 1
    /\ \A s \in Slots : handlers[s].calls <= 1

\* C8, amended: handlers are not serialized; what holds of every handler,
\* alone or interleaved with another, is that it requests at most one cache
\* load and reads the directory at most twice.
C8_OneLoadPerHandler ==
    \A s \in Slots : handlers[s].loads <= 1 /\ handlers[s].scans <= 2

\* Two handlers in progress at once, one of them past its cache load and
\* with more than one call of the cache behind it.
C8_Witness ==
    /\ \A s \in Slots : Running(handlers[s])
    /\ \E s \in Slots : handlers[s].loads = 1 /\ handlers[s].calls > 1

----------------------------------------------------------------------------
(* C9 *)

\* C9: when an unlink of deleteFont has failed, the handler is rejected
\* without a republication, the matching files before the failing one are
\* gone, and the failing one and those after it are still there.
C9_DeleteAbortsAtFailure ==
    \A s \in Slots :
       LET h == handlers[s] IN
       (h.cmd = "delete" /\ h.log = "deleteFont" /\ h.files # << >>) =>
          /\ h.pc = "rejected"
          /\ ~h.published
          /\ h.idx \in DOMAIN h.files
          /\ \A i \in 1..(h.idx - 1) : h.files[i] \notin DOMAIN dir
          /\ \A i \in h.idx..Len(h.files) : h.files[i] \in DOMAIN dir

\* The second of two unlinks failed: the first file is gone, the second is
\* still there.
C9_Witness ==
    \E s \in Slots :
       LET h == handlers[s] IN
       /\ h.cmd = "delete" /\ h.pc = "rejected"
       /\ Len(h.files) = 2 /\ h.idx = 2
       /\ dir[h.files[2]].kind = "file"

----------------------------------------------------------------------------
(* C10 *)

\* C10: no step of the handler of a delete command changes the cache: a
\* font that was cache-resident before deleteFont is cache-resident after
\* it, with the same data URL.
C10_DeleteKeepsCache ==
    [][\A s \in Slots :
          (Steps(s) /\ handlers'[s].cmd = "delete") => cache' = cache]_vars

\* A font deleted from the directory and absent from the republished
\* listing while the cache still holds its data URL.
C10_Witness ==
    \E s \in Slots :
       LET h == handlers[s] IN
       /\ h.cmd = "delete" /\ h.pc = "done" /\ h.log = "none"
       /\ Len(h.files) >= 1
       /\ getFontInfo(cache, h.name) # Null
       /\ \A i \in DOMAIN h.fonts : h.fonts[i].name # h.name

====
